---- MODULE Spec2Model ----
(***************************************************************************)
(* DreamAi: the retrieval-augmented query pipeline of the Search chat      *)
(* component (embed -> match_documents -> context assembly -> prompt ->    *)
(* generate) and the history the component renders.                        *)
(*                                                                         *)
(* The repository holds three copies of the Search component:              *)
(*   "page1967"  complexFormValidator/page.tsx:1967-2149                   *)
(*   "page2163"  complexFormValidator/page.tsx:2163-2332                   *)
(*   "part006"   unnamed/part_006:12-161                                   *)
(* They share handleSearch's pipeline and differ in where the input field  *)
(* is cleared, in what generateAnswer does on a non-200 reply and in the   *)
(* prompt template.  The model mounts one of them (component).             *)
(*                                                                         *)
(* Text is a sequence of one-character strings; the fixed pieces of a      *)
(* template are single elements (one element per literal line).            *)
(***************************************************************************)
EXTENDS Integers, Sequences, FiniteSets, TLC

\* ------------------------------------------------------------------ bounds
\* query turns (accepted submissions) one run of the component may start
MaxTurns == 2
\* longest list of documents the assembler is run on in SpecAssemble
MaxMatches == 3
MaxIngests == 2
MaxLen == 3
MaxRequests == 2
MaxStored == 3
MaxLimit == 2

\* ------------------------------------------------------- program constants
\* if (tokenCount > 1500) break;
TokenBudget == 1500
\* match_count: 1
MatchCount == 1

VARIABLES
  component,    \* which copy of Search is mounted
  chatRoute,    \* which copy of the POST /chat handler is deployed
  input,        \* inputRef.current.value
  questions,    \* useState<string[]>([])
  answers,      \* useState<string[]>([])
  loading,      \* useState(false)
  turns,        \* one record per running or ended handleSearch call that passed the blank test
  matches,      \* SpecAssemble: the list the loop runs on
  asm,          \* SpecAssemble: the loop's locals
  formInput,    \* SpecIngest: the Textarea's value (Form's inputRef.current.value)
  formLoading,  \* SpecIngest: Form's useState(false)
  ingestions,   \* SpecIngest: one record per handleCreateEmbeddings call
  store,        \* SpecIngest: the rows of the documents table
  requests,     \* SpecRoutes: the HTTP requests the server has received
  lookup        \* SpecSearch: one match_documents call, its arguments and its result

uiVars == <<component, chatRoute, input, questions, answers, loading, turns>>
asmVars == <<matches, asm>>
ingVars == <<formInput, formLoading, ingestions, store>>
srvVars == <<requests, lookup>>
vars == <<component, chatRoute, input, questions, answers, loading, turns, matches, asm,
          formInput, formLoading, ingestions, store, requests, lookup>>

\* ------------------------------------------------------------------- text
IsSpace(c) == c \in {" ", "\n", "\t"}

RECURSIVE trimStart(_)
trimStart(s) ==
  IF s = <<>> THEN <<>>
  ELSE IF IsSpace(Head(s)) THEN trimStart(Tail(s)) ELSE s

RECURSIVE trimEnd(_)
trimEnd(s) ==
  IF s = <<>> THEN <<>>
  ELSE IF IsSpace(s[Len(s)]) THEN trimEnd(SubSeq(s, 1, Len(s) - 1)) ELSE s

\* String.prototype.trim
trim(s) == trimEnd(trimStart(s))

\* mutant: the text is sent as it was submitted
sentAsIs(s) == s

\* searchText.replace(/\n/g, " ")
replaceNewlines(s) == [i \in 1..Len(s) |-> IF s[i] = "\n" THEN " " ELSE s[i]]

\* needle occurs in hay as a contiguous run
Contains(hay, needle) ==
  \E i \in 0..(Len(hay) - Len(needle)) : SubSeq(hay, i + 1, i + Len(needle)) = needle

\* ------------------------------------------------------------- documents
\* rows match_documents can return: {content, token}
Documents ==
  { [content |-> <<"a">>,           token |-> 700],
    [content |-> <<" ", "b", " ">>, token |-> 800],
    [content |-> <<"c">>,           token |-> 1501],
    [content |-> <<"d">>,           token |-> 1500],
    [content |-> <<"e">>,           token |-> 1] }

\* ranked lists of distinct rows, at most n long
MatchLists(n) ==
  UNION { { s \in [1..k -> Documents] : \A i, j \in 1..k : i # j => s[i] # s[j] }
          : k \in 0..n }

\* const { data: documents } = await supabase.rpc(...): the rows, or null when
\* the call reports an error
NullDocuments == [isNull |-> TRUE, rows |-> <<>>]
Rows(list) == [isNull |-> FALSE, rows |-> list]
RpcResults(n) == { Rows(l) : l \in MatchLists(n) } \cup {NullDocuments}

\* no match_documents call made
NoLookup == [rows |-> <<>>, threshold |-> 0, limit |-> 0, result |-> NullDocuments, done |-> FALSE]

\* what match_documents answers a query of the component with: null, no row,
\* a row that fits the budget (its content to be trimmed), a row over the budget
SearchResults ==
  { r \in RpcResults(MatchCount) : \A i \in 1..Len(r.rows) : r.rows[i].token \in {800, 1501} }

\* `${content.trim()}\n--\n`
Separator == <<"\n", "-", "-", "\n">>

\* mutant: contextText declared outside handleSearch, so a turn's loop starts
\* from what the first turn built
loopStartCarried ==
  [ i |-> 1, tokenCount |-> 0,
    contextText |-> IF Len(turns) > 0 THEN turns[1].contextText ELSE <<>>,
    included |-> {}, broke |-> FALSE ]

\* ------------------------------------------------------ context assembly
\* the locals of handleSearch's loop before its first iteration; included is
\* the set of indices i whose content has been appended to contextText
loopStart == [i |-> 1, tokenCount |-> 0, contextText |-> <<>>, included |-> {}, broke |-> FALSE]

\* for (let i = 0; i < documents?.length; i++): documents == null makes
\* documents?.length undefined and the test false
loopTest(documents, st) ==
  /\ ~documents.isNull
  /\ ~st.broke
  /\ st.i <= Len(documents.rows)

\* mutant: the content is appended before the budget test
loopBodyAppendFirst(documents, st) ==
  LET document == documents.rows[st.i]
      content == document.content
      tc == st.tokenCount + document.token
      appended == [st EXCEPT !.tokenCount = tc,
                             !.contextText = st.contextText \o trim(content) \o Separator,
                             !.included = st.included \cup {st.i}]
  IN IF tc > TokenBudget
       THEN [appended EXCEPT !.broke = TRUE]
       ELSE [appended EXCEPT !.i = st.i + 1]

\* mutant: continue instead of break
loopBodyContinue(documents, st) ==
  LET document == documents.rows[st.i]
      content == document.content
      tc == st.tokenCount + document.token
  IN IF tc > TokenBudget
       THEN [st EXCEPT !.i = st.i + 1]
       ELSE [st EXCEPT !.i = st.i + 1,
                       !.tokenCount = tc,
                       !.contextText = st.contextText \o trim(content) \o Separator,
                       !.included = st.included \cup {st.i}]

\* mutant: the loop breaks when the total reaches the budget
loopBodyBreakAtBudget(documents, st) ==
  LET document == documents.rows[st.i]
      content == document.content
      tc == st.tokenCount + document.token
  IN IF tc >= TokenBudget
       THEN [st EXCEPT !.tokenCount = tc, !.broke = TRUE]
       ELSE [st EXCEPT !.i = st.i + 1,
                       !.tokenCount = tc,
                       !.contextText = st.contextText \o trim(content) \o Separator,
                       !.included = st.included \cup {st.i}]

\* one iteration of the loop body
loopBody(documents, st) ==
  LET document == documents.rows[st.i]
      content == document.content
      tc == st.tokenCount + document.token
  IN IF tc > TokenBudget
       THEN [st EXCEPT !.tokenCount = tc, !.broke = TRUE]
       ELSE [st EXCEPT !.i = st.i + 1,
                       !.tokenCount = tc,
                       !.contextText = st.contextText \o trim(content) \o Separator,
                       !.included = st.included \cup {st.i}]

RECURSIVE runLoop(_, _)
runLoop(documents, st) ==
  IF loopTest(documents, st) THEN runLoop(documents, loopBody(documents, st)) ELSE st

\* the whole loop: let tokenCount = 0; let contextText = ""; for (...) {...}
assemble(documents) == runLoop(documents, loopStart)

RECURSIVE SumTokens(_, _)
SumTokens(documents, idx) ==
  IF idx = {} THEN 0
  ELSE LET i == CHOOSE j \in idx : TRUE
       IN documents.rows[i].token + SumTokens(documents, idx \ {i})

\* token counts of the documents whose content is in contextText
usedTokens(documents, st) == SumTokens(documents, st.included)

\* ------------------------------------------------------ prompt template
NL == <<"\n">>
Indent == <<" ", " ", " ", " ">>

RECURSIVE splitLines(_, _, _)
splitLines(s, cur, acc) ==
  IF s = <<>> THEN Append(acc, cur)
  ELSE IF Head(s) = "\n" THEN splitLines(Tail(s), <<>>, Append(acc, cur))
  ELSE splitLines(Tail(s), Append(cur, Head(s)), acc)

RECURSIVE joinLines(_)
joinLines(ls) ==
  IF Len(ls) = 0 THEN <<>>
  ELSE IF Len(ls) = 1 THEN ls[1]
  ELSE ls[1] \o NL \o joinLines(Tail(ls))

\* endResult.match(/^[^\S\n]*(?=\S)/gm): the leading blanks of every line that
\* has content; Math.min of their lengths (0 when nothing matches)
minIndent(ls) ==
  LET withContent == { k \in 1..Len(ls) : trimStart(ls[k]) # <<>> }
      lead(k) == Len(ls[k]) - Len(trimStart(ls[k]))
  IN IF withContent = {} THEN 0
     ELSE CHOOSE n \in { lead(k) : k \in withContent } :
            \A k \in withContent : n <= lead(k)

\* common-tags stripIndent: stripIndentTransformer, then trimResultTransformer.
\* endResult.replace(new RegExp(`^.{${indent}}`, "gm"), "") when indent > 0.
stripIndent(s) ==
  LET ls == splitLines(s, <<>>, <<>>)
      indent == minIndent(ls)
      cut(line) == IF Len(line) >= indent THEN SubSeq(line, indent + 1, Len(line)) ELSE line
  IN trim(IF indent > 0 THEN joinLines([k \in 1..Len(ls) |-> cut(ls[k])]) ELSE s)

\* oneLine`You are a very enthusiastic Dream ...`: the persona text on one line
Preamble(c) == << "You are a very enthusiastic Dream " \o c >>

\* page.tsx:2054-2089
generatePrompt1967(contextText, searchText) ==
  stripIndent(
    Preamble("interpreting expert ... wording reference.")
    \o NL \o NL \o Indent \o <<"wording reference:">>
    \o NL \o Indent \o <<"\"You must understand this: ... strongly identified with\"">>
    \o NL \o NL \o NL \o NL \o NL
    \o Indent \o <<"Context sections:">>
    \o NL \o Indent \o contextText
    \o NL \o Indent \o searchText
    \o NL \o NL \o NL \o NL
    \o Indent \o <<"Answer as markdown (including related code snippets if available):">>
    \o NL \o <<" ", " ">>)

\* page.tsx:2254-2275: contextText is a parameter the template never uses
generatePrompt2163(contextText, searchText) ==
  stripIndent(
    Preamble("mystical indian guru ... outputted in markdown format")
    \o NL \o NL \o NL \o NL \o NL \o NL
    \o Indent \o <<"Context sections:">>
    \o NL \o NL \o <<"\t">> \o searchText
    \o NL \o NL \o <<" ", " ", " ">>
    \o NL \o NL
    \o Indent \o <<"Answer as markdown", " ">>
    \o NL \o <<" ", " ">>)

\* part_006:99-117
generatePrompt006(contextText, searchText) ==
  stripIndent(
    Preamble("interpreting expert ... outputted in markdown format.")
    \o NL \o NL
    \o Indent \o <<"Context sections:">>
    \o NL \o Indent \o contextText
    \o NL \o NL
    \o Indent \o <<"Question: \"\"\"">>
    \o NL \o Indent \o searchText
    \o NL \o Indent \o <<"\"\"\"">>
    \o NL \o NL
    \o Indent \o <<"Answer as markdown (including related code snippets if available):">>
    \o NL \o <<" ", " ">>)

Components == {"page1967", "page2163", "part006"}

\* the mounted component's generatePrompt
generatePrompt(c, contextText, searchText) ==
  CASE c = "page1967" -> generatePrompt1967(contextText, searchText)
    [] c = "page2163" -> generatePrompt2163(contextText, searchText)
    [] c = "part006"  -> generatePrompt006(contextText, searchText)

\* ------------------------------------------------------------ the routes
\* const { data } = await supabase.auth.getUser(): data is an object holding
\* the user, or holding user: null when nobody is signed in
GetUserData == { [isObject |-> TRUE, user |-> u] : u \in {"user", "null"} }

\* if (!data)
notData(data) == ~data.isObject

\* POST /embedding: 403 on !data, 422 without text, 500 when the backend
\* throws, else 200; inputs lists what the handler sent to the embedding model
embeddingPOST(data, text, backendOk) ==
  IF notData(data) THEN [status |-> 403, inputs |-> <<>>]
  ELSE IF text = <<>> THEN [status |-> 422, inputs |-> <<>>]
  ELSE IF backendOk THEN [status |-> 200, inputs |-> <<text>>]
  ELSE [status |-> 500, inputs |-> <<text>>]

\* the text model.generateContent answers with
Generated == "generated text"

\* POST /chat of chat/route.ts: 403 on !data, 400 when the backend throws,
\* else 200 with {choices}; inputs lists what the handler sent to the model
chatPOST(data, prompt, backendOk) ==
  IF notData(data) THEN [status |-> 403, choices |-> "", inputs |-> <<>>]
  ELSE IF backendOk THEN [status |-> 200, choices |-> Generated, inputs |-> <<prompt>>]
  ELSE [status |-> 400, choices |-> "", inputs |-> <<prompt>>]

\* the literal part_005 sends to the model before it reads the request
YourUserInput == <<"YOUR_USER_INPUT">>

\* POST /chat of part_005: chat.sendMessage("YOUR_USER_INPUT") runs before the
\* body is read and outside the try, so its failure is the framework's 500;
\* then as chat/route.ts
chatPOST005(data, prompt, sendOk, backendOk) ==
  IF notData(data) THEN [status |-> 403, choices |-> "", inputs |-> <<>>]
  ELSE IF ~sendOk THEN [status |-> 500, choices |-> "", inputs |-> <<YourUserInput>>]
  ELSE IF backendOk
    THEN [status |-> 200, choices |-> Generated, inputs |-> <<YourUserInput, prompt>>]
    ELSE [status |-> 400, choices |-> "", inputs |-> <<YourUserInput, prompt>>]

\* the two copies of the /chat handler
ChatRoutes == {"route", "part005"}

\* the deployed /chat handler
chat(route, data, prompt, sendOk, backendOk) ==
  IF route = "part005" THEN chatPOST005(data, prompt, sendOk, backendOk)
  ELSE chatPOST(data, prompt, backendOk)

\* "Oh my child, Your lord is taking rest come later"
Fallback == "Oh my child, Your lord is taking rest come later"

\* what the user can have in the input field
Inputs == { <<>>, <<" ">>, <<"q">> }

\* -------------------------------------------------------- the component
\* a turn: the locals of one handleSearch call, where it is suspended (pc),
\* and bookkeeping of what it has done: the calls it made, whether it called
\* toastError (notice), the stage whose route answered with an error status
\* (failedAt), the stage whose fetch rejected (threwAt), and the indices of the
\* entries it appended to questions (qIndex) and answers (aIndex, 0 for none);
\* genInputs is what the /chat handler sent to the model for this turn
newTurn(searchText, qIndex) ==
  [ pc          |-> "Embedding",
    searchText  |-> searchText,
    embedText   |-> replaceNewlines(searchText),
    documents   |-> NullDocuments,
    contextText |-> <<>>,
    prompt      |-> <<>>,
    calls       |-> [embed |-> 1, search |-> 0, generate |-> 0],
    genInputs   |-> <<>>,
    notice      |-> FALSE,
    failedAt    |-> "none",
    threwAt     |-> "none",
    qIndex      |-> qIndex,
    aIndex      |-> 0 ]

\* the Form and the table before anything was ingested
IngestIdle ==
  /\ formInput = <<>>
  /\ formLoading = FALSE
  /\ ingestions = <<>>
  /\ store = <<>>

Init ==
  /\ component \in Components
  /\ chatRoute \in ChatRoutes
  /\ IngestIdle
  /\ requests = <<>>
  /\ lookup = NoLookup
  /\ input = <<>>
  /\ questions = <<>>
  /\ answers = <<>>
  /\ loading = FALSE
  /\ turns = <<>>
  /\ matches = NullDocuments
  /\ asm = loopStart

\* the user edits the input field
Type ==
  \E s \in Inputs :
    /\ s # input
    /\ input' = s
    /\ UNCHANGED <<component, chatRoute, questions, answers, loading, turns, matches, asm, ingVars, srvVars>>

\* inputRef.current.value = "" is the third statement of handleSearch in
\* page.tsx (1992, 2188) and its last but one in part_006 (81)
clearsInputFirst(c) == c \in {"page1967", "page2163"}

\* the statements of handleSearch after the if: part_006 clears the input
\* there; every copy ends with setLoading(false)
inputAtEnd(c, current) == IF clearsInputFirst(c) THEN current ELSE <<>>

\* mutant: the test without its trim
truthy(searchText) == searchText # <<>>

\* if (searchText && searchText.trim())
notBlank(searchText) == searchText # <<>> /\ trim(searchText) # <<>>

\* Enter on a blank input: setLoading(true), the test fails, setLoading(false);
\* both updates are batched in the one event handler
handleSearchBlank ==
  /\ ~notBlank(input)
  /\ loading' = FALSE
  /\ input' = <<>>
  /\ UNCHANGED <<component, chatRoute, questions, answers, turns, matches, asm, ingVars, srvVars>>

\* mutant: handleSearch without its setQuestion before the first await
handleSearchQuestionLate ==
  /\ notBlank(input)
  /\ Len(turns) < MaxTurns
  /\ loading' = TRUE
  /\ input' = IF clearsInputFirst(component) THEN <<>> ELSE input
  /\ turns' = Append(turns, newTurn(input, Len(questions) + 1))
  /\ UNCHANGED <<component, chatRoute, questions, answers, matches, asm, ingVars, srvVars>>

\* mutant: handleSearch starting the turn on an emptied answers list
handleSearchResets ==
  /\ notBlank(input)
  /\ Len(turns) < MaxTurns
  /\ loading' = TRUE
  /\ input' = IF clearsInputFirst(component) THEN <<>> ELSE input
  /\ questions' = Append(questions, input)
  /\ answers' = <<>>
  /\ turns' = Append(turns, newTurn(input, Len(questions) + 1))
  /\ UNCHANGED <<component, chatRoute, matches, asm, ingVars, srvVars>>

\* Enter on a non-blank input: handleSearch up to its first await
handleSearch ==
  /\ notBlank(input)
  /\ Len(turns) < MaxTurns
  /\ loading' = TRUE
  /\ input' = IF clearsInputFirst(component) THEN <<>> ELSE input
  /\ questions' = Append(questions, input)
  /\ turns' = Append(turns, newTurn(input, Len(questions) + 1))
  /\ UNCHANGED <<component, chatRoute, answers, matches, asm, ingVars, srvVars>>

\* fetch(/embedding) rejects: the exception leaves handleSearch, which has no
\* try/catch; nothing after the await runs
embeddingRejects(t) ==
  /\ turns[t].pc = "Embedding"
  /\ turns' = [turns EXCEPT ![t].pc = "Threw", ![t].threwAt = "embedding"]
  /\ UNCHANGED <<component, chatRoute, input, questions, answers, loading, matches, asm, ingVars, srvVars>>

\* the route answered with an error status
errorStatus(res) == res.status >= 400

\* mutant: the status of the reply is not looked at
statusIgnored(res) == FALSE

\* if (res.status !== 200)
statusNot200(res) == res.status # 200

\* fetch(/embedding) resolves: toastError() on a status other than 200, else
\* res.json() and the match_documents call
embeddingReplies(t) ==
  \E backendOk \in BOOLEAN, data \in GetUserData :
    LET res == embeddingPOST(data, turns[t].embedText, backendOk)
        failed == IF errorStatus(res) THEN "embedding" ELSE "none"
    IN
    /\ turns[t].pc = "Embedding"
    /\ IF statusNot200(res)
         THEN /\ turns' = [turns EXCEPT ![t].pc = "ErrorAtStage",
                                        ![t].failedAt = failed,
                                        ![t].notice = TRUE]
              /\ input' = inputAtEnd(component, input)
              /\ loading' = FALSE
         ELSE /\ turns' = [turns EXCEPT ![t].pc = "Searching",
                                        ![t].failedAt = failed,
                                        ![t].calls.search = @ + 1]
              /\ UNCHANGED <<input, loading>>
    /\ UNCHANGED <<component, chatRoute, questions, answers, matches, asm, ingVars, srvVars>>

\* "Sorry there is no context related to this question. ..."
NoContext == "Sorry there is no context related to this question. Please ask something about Sokheng"

\* mutant: the guard if (contextText) that is commented out after the call
generatesOnlyWithContext(contextText) == contextText # <<>>

\* generatePrompt and generateAnswer are called whatever the loop built; the
\* guard if (contextText) with its apology answer is commented out
generatesAnswer(contextText) == TRUE

\* supabase.rpc resolves with rows or with null: the loop, generatePrompt and
\* generateAnswer up to its fetch(/chat)
searchReplies(t) ==
  \E documents \in SearchResults :
    LET st == assemble(documents) IN
    /\ turns[t].pc = "Searching"
    /\ IF generatesAnswer(st.contextText)
         THEN /\ turns' = [turns EXCEPT ![t].pc = "Generating",
                                        ![t].documents = documents,
                                        ![t].contextText = st.contextText,
                                        ![t].prompt = generatePrompt(component, st.contextText,
                                                                     turns[t].searchText),
                                        ![t].calls.generate = @ + 1]
              /\ UNCHANGED <<input, answers, loading>>
         ELSE /\ answers' = Append(answers, NoContext)
              /\ turns' = [turns EXCEPT ![t].pc = "Done",
                                        ![t].documents = documents,
                                        ![t].contextText = st.contextText,
                                        ![t].aIndex = Len(answers) + 1]
              /\ input' = inputAtEnd(component, input)
              /\ loading' = FALSE
    /\ UNCHANGED <<component, chatRoute, questions, matches, asm, ingVars, srvVars>>

\* fetch(/chat) rejects: the exception leaves generateAnswer and handleSearch
generationRejects(t) ==
  /\ turns[t].pc = "Generating"
  /\ turns' = [turns EXCEPT ![t].pc = "Threw", ![t].threwAt = "generation"]
  /\ UNCHANGED <<component, chatRoute, input, questions, answers, loading, matches, asm, ingVars, srvVars>>

\* generateAnswer on a status other than 200: page.tsx:2243-2248 appends the
\* fallback answer; page.tsx:2046-2047 and part_006:90-91 call toastError()
appendsFallback(c) == c = "page2163"

\* fetch(/chat) resolves: the rest of generateAnswer, then the end of handleSearch
generationReplies(t) ==
  \E sendOk, backendOk \in BOOLEAN, data \in GetUserData :
    LET res == chat(chatRoute, data, turns[t].prompt, sendOk, backendOk)
        failed == IF errorStatus(res) THEN "generation" ELSE "none"
    IN
    /\ turns[t].pc = "Generating"
    /\ IF statusNot200(res)
         THEN IF appendsFallback(component)
                THEN /\ answers' = Append(answers, Fallback)
                     /\ turns' = [turns EXCEPT ![t].pc = "ErrorAtStage",
                                               ![t].failedAt = failed,
                                               ![t].genInputs = res.inputs,
                                               ![t].aIndex = Len(answers) + 1]
                ELSE /\ answers' = answers
                     /\ turns' = [turns EXCEPT ![t].pc = "ErrorAtStage",
                                               ![t].failedAt = failed,
                                               ![t].genInputs = res.inputs,
                                               ![t].notice = TRUE]
         ELSE /\ answers' = Append(answers, res.choices)
              /\ turns' = [turns EXCEPT ![t].pc = "Done",
                                        ![t].failedAt = failed,
                                        ![t].genInputs = res.inputs,
                                        ![t].aIndex = Len(answers) + 1]
    /\ input' = inputAtEnd(component, input)
    /\ loading' = FALSE
    /\ UNCHANGED <<component, chatRoute, questions, matches, asm, ingVars, srvVars>>

Next ==
  \/ Type
  \/ handleSearchBlank
  \/ handleSearch
  \/ \E t \in 1..Len(turns) : embeddingRejects(t)
  \/ \E t \in 1..Len(turns) : embeddingReplies(t)
  \/ \E t \in 1..Len(turns) : searchReplies(t)
  \/ \E t \in 1..Len(turns) : generationRejects(t)
  \/ \E t \in 1..Len(turns) : generationReplies(t)

Spec == Init /\ [][Next]_vars

\* ------------------------------------------------------------ the render
\* const answer = answers[index]; const isLoading = loading && !answer;
isLoading(index) ==
  loading /\ ~(index <= Len(answers) /\ answers[index] # "")

Turns == 1..Len(turns)
InFlight(t) == turns[t].pc \in {"Embedding", "Searching", "Generating"}
Terminal(t) == turns[t].pc \in {"Done", "ErrorAtStage"}

\* C2: every turn that has reached Done or ErrorAtStage has appended an answer
\* entry for its question.
C2_Pairing == \A t \in Turns : Terminal(t) => turns[t].aIndex # 0

\* C3: a turn whose generation call failed is in a terminal state and has
\* appended the fallback string as its answer.
C3_FailureFallback ==
  \A t \in Turns :
    turns[t].failedAt = "generation" =>
      /\ Terminal(t)
      /\ turns[t].aIndex # 0
      /\ answers[turns[t].aIndex] = Fallback

\* C4: when no turn has failed, every answer in the history sits at the index
\* of the question that produced it, whichever of two overlapping turns ends first.
C4_OverlapPairing ==
  (\A t \in Turns : turns[t].failedAt = "none" /\ turns[t].threwAt = "none")
    => \A t \in Turns : turns[t].aIndex # 0 => turns[t].aIndex = turns[t].qIndex

\* C5: the prompt handed to generation contains the assembled context text and
\* the literal question text.
C5_PromptComplete ==
  \A t \in Turns :
    turns[t].calls.generate > 0 =>
      /\ Contains(turns[t].prompt, turns[t].contextText)
      /\ Contains(turns[t].prompt, turns[t].searchText)

C7_PendingIndicator == \A t \in Turns : InFlight(t) => isLoading(turns[t].qIndex)

\* C8: no turn's handler is ended by an exception that nothing caught.
C8_FailureContained == \A t \in Turns : turns[t].pc # "Threw"

PastSearch(t) == turns[t].calls.search = 1 /\ turns[t].pc # "Searching"

\* C11: a turn whose search has answered and whose context came out empty (no
\* rows, null, or a first row over the budget) has called generation once with
\* the prompt rendered from the empty context; it has not failed at embedding or
\* search, and once it is Done its answer is the generated text.
C11_EmptyResultTolerated ==
  \A t \in Turns :
    (PastSearch(t) /\ turns[t].contextText = <<>>) =>
      /\ turns[t].calls.generate = 1
      /\ turns[t].prompt = generatePrompt(component, <<>>, turns[t].searchText)
      /\ turns[t].failedAt \in {"none", "generation"}
      /\ turns[t].pc = "Done" =>
           /\ turns[t].aIndex # 0
           /\ answers[turns[t].aIndex] = Generated

\* C11 witness: a turn whose search returned no rows is Done with an answer.
C11_Witness ==
  \E t \in Turns :
    /\ turns[t].pc = "Done"
    /\ ~turns[t].documents.isNull /\ turns[t].documents.rows = <<>>
    /\ turns[t].calls.generate = 1
    /\ turns[t].aIndex # 0

\* C12: everything the /chat handler sent to the model for a turn is that
\* turn's rendered prompt.
C12_ExactPrompt ==
  \A t \in Turns :
    \A k \in 1..Len(turns[t].genInputs) : turns[t].genInputs[k] = turns[t].prompt

\* C13: a turn has called search only after its embed call answered without
\* error, and has called generation only after its search answered with a
\* result (rows, possibly none) rather than with an error (data null).
C13_StageOrdering ==
  \A t \in Turns :
    /\ turns[t].calls.search > 0 =>
         /\ turns[t].pc # "Embedding"
         /\ turns[t].failedAt # "embedding" /\ turns[t].threwAt # "embedding"
    /\ turns[t].calls.generate > 0 =>
         /\ PastSearch(t)
         /\ ~turns[t].documents.isNull

\* C14: every turn is either waiting for a reply or has ended in Done or
\* ErrorAtStage, and when no turn is waiting the pending flag is cleared.
C14_Termination ==
  /\ \A t \in Turns : InFlight(t) \/ Terminal(t)
  /\ (\A t \in Turns : ~InFlight(t)) => ~loading

\* C15: no turn was started from, and no question was appended for, an empty
\* or whitespace-only text; every question in the history belongs to a turn and
\* every answer to a turn that has ended, so a blank submission added nothing.
C15_BlankStartsNoTurn ==
  /\ \A t \in Turns : trim(turns[t].searchText) # <<>>
  /\ \A i \in 1..Len(questions) : trim(questions[i]) # <<>>
  /\ Len(questions) = Len(turns)
  /\ Len(answers) <= Cardinality({t \in Turns : ~InFlight(t)})

\* C15 witness: a blank submission was made while the only turn was waiting
\* (it cleared the flag the turn had set) and the history still holds just that
\* turn's question.
C15_Witness ==
  /\ Len(turns) = 1 /\ InFlight(1)
  /\ ~loading
  /\ Len(questions) = 1 /\ answers = <<>>

\* C16: from the moment a turn exists, while its embed call is still out, its
\* question is in the history; every answer in the history was appended by a
\* turn whose generation call has been made and has answered.
C16_QuestionFirst ==
  /\ \A t \in Turns :
       /\ turns[t].qIndex <= Len(questions)
       /\ questions[turns[t].qIndex] = turns[t].searchText
  /\ \A i \in 1..Len(answers) :
       \E t \in Turns :
         /\ turns[t].aIndex = i
         /\ turns[t].calls.generate = 1
         /\ Terminal(t)

\* C16 witness: one turn still waits for its embedding with its question shown
\* and no answer, next to a turn that is Done with its answer.
C16_Witness ==
  \E t, u \in Turns :
    /\ turns[t].pc = "Embedding" /\ turns[t].aIndex = 0
    /\ questions[turns[t].qIndex] = turns[t].searchText
    /\ turns[u].pc = "Done" /\ turns[u].aIndex # 0

\* C17: in one turn the embedding backend is called at most once and the
\* generation backend receives at most one input, and a turn whose stage failed
\* has made no call after it.
C17_NoRetries ==
  \A t \in Turns :
    /\ turns[t].calls.embed <= 1
    /\ turns[t].calls.generate <= 1
    /\ Len(turns[t].genInputs) <= 1
    /\ turns[t].failedAt = "embedding" => turns[t].calls.generate = 0

\* C18: two turns of one session that asked the same question and got the same
\* search result were handed the same context and the same prompt, whatever
\* ran before or between them.
C18_TurnIndependence ==
  \A t, u \in Turns :
    ( /\ turns[t].calls.generate = 1 /\ turns[u].calls.generate = 1
      /\ turns[t].documents = turns[u].documents
      /\ turns[t].searchText = turns[u].searchText )
    => /\ turns[t].contextText = turns[u].contextText
       /\ turns[t].prompt = turns[u].prompt

\* C18 witness: the first turn is Done and a later turn has been handed its
\* prompt from the same non-empty search result.
C18_Witness ==
  /\ Len(turns) = 2
  /\ turns[1].pc = "Done" /\ turns[2].calls.generate = 1
  /\ turns[1].documents = turns[2].documents
  /\ turns[1].contextText # <<>>
  /\ turns[1].prompt = turns[2].prompt

\* ---------------------------------------------------------- the dataset Form
\* what the Textarea can hold, and what /api/pdf can answer as result.data
\* (a missing data field is falsy like the empty string)
FormTexts == { <<>>, <<" ">>, <<"d", "\n", "e">> }
PdfTexts == { <<>>, <<"p">> }

\* what the embedding backend can answer: totalTokens, and embedding.values
\* of the length of the model in use
Tokens == {1, 2}
Vectors == { <<1, 2>>, <<2, 1>>, <<1, 2, 3>> }

\* NextResponse.json({ token, embedding })
embeddingJSON(token, values) == [token |-> token, embedding |-> [values |-> values]]

NoResult == [token |-> 0, embedding |-> [values |-> <<>>]]
NoRow == [data |-> <<>>, embedding |-> <<>>, token |-> 0]

\* the length of the documents table's embedding column
Dimensionality == 2

\* mutant: a table that takes a vector of any length
storeInsertUnguarded(rows, row) == [error |-> "none", rows |-> Append(rows, row)]

\* insert into documents: rejected with DimensionMismatch when the vector's
\* length is not the table's, else the row is added
storeInsert(rows, row) ==
  IF Len(row.embedding) # Dimensionality
    THEN [error |-> "DimensionMismatch", rows |-> rows]
    ELSE [error |-> "none", rows |-> Append(rows, row)]

\* one handleCreateEmbeddings call: its argument, where it is suspended (pc),
\* the body of the /embedding reply (result), the row it handed to insert
\* (payload), how many inserts it issued, the toast it raised and the error the
\* insert answered with
newIngestion(data) ==
  [ pc        |-> "Embedding",
    data      |-> data,
    embedText |-> replaceNewlines(data),
    result    |-> NoResult,
    payload   |-> NoRow,
    inserts   |-> 0,
    failedAt  |-> "none",
    threwAt   |-> "none",
    toast     |-> "none",
    error     |-> "none" ]

\* the user edits the Textarea
FormType ==
  \E s \in FormTexts :
    /\ s # formInput
    /\ formInput' = s
    /\ UNCHANGED <<formLoading, ingestions, store, uiVars, asmVars, srvVars>>

\* if (data && data.trim())
hasText(data) == data # <<>> /\ trim(data) # <<>>

\* handleCreateEmbeddings up to its first await; with nothing to embed it runs
\* to its end: setLoading(true), setLoading(false)
handleCreateEmbeddings(data) ==
  /\ Len(ingestions) < MaxIngests
  /\ IF hasText(data)
       THEN /\ formLoading' = TRUE
            /\ ingestions' = Append(ingestions, newIngestion(data))
       ELSE /\ formLoading' = FALSE
            /\ ingestions' = Append(ingestions, [newIngestion(data) EXCEPT !.pc = "Done"])
  /\ UNCHANGED <<formInput, store, uiVars, asmVars, srvVars>>

\* Submit: the Textarea's content
handleSubmit == handleCreateEmbeddings(formInput)

\* Convert PDF: the text /api/pdf extracted
handleSubmitPdf == \E data \in PdfTexts : handleCreateEmbeddings(data)

\* fetch(/embedding) rejects: handleCreateEmbeddings has no try/catch
ingestEmbeddingRejects(g) ==
  /\ ingestions[g].pc = "Embedding"
  /\ ingestions' = [ingestions EXCEPT ![g].pc = "Threw", ![g].threwAt = "embedding"]
  /\ UNCHANGED <<formInput, formLoading, store, uiVars, asmVars, srvVars>>

\* mutant: the status of the /embedding reply is not looked at
embedFailedNever(res) == FALSE

\* if (res.status !== 200)
embedFailed(res) == res.status # 200

\* fetch(/embedding) resolves: toastError() and the end on a status other than
\* 200, else res.json() and the insert of { data, embedding, token }
ingestEmbeddingReplies(g) ==
  \E backendOk \in BOOLEAN, data \in GetUserData, token \in Tokens, values \in Vectors :
    LET res == embeddingPOST(data, ingestions[g].embedText, backendOk)
        failed == IF errorStatus(res) THEN "embedding" ELSE "none"
        result == IF res.status = 200 THEN embeddingJSON(token, values) ELSE NoResult
    IN
    /\ ingestions[g].pc = "Embedding"
    /\ IF embedFailed(res)
         THEN /\ ingestions' = [ingestions EXCEPT ![g].pc = "Done",
                                                  ![g].failedAt = failed,
                                                  ![g].toast = "Something went wrong"]
              /\ formLoading' = FALSE
         ELSE /\ ingestions' = [ingestions EXCEPT
                   ![g].pc = "Inserting",
                   ![g].failedAt = failed,
                   ![g].result = result,
                   ![g].payload = [data      |-> ingestions[g].data,
                                   embedding |-> result.embedding.values,
                                   token     |-> result.token],
                   ![g].inserts = @ + 1]
              /\ UNCHANGED formLoading
    /\ UNCHANGED <<formInput, store, uiVars, asmVars, srvVars>>

\* mutant: the error of the insert is not looked at
insertRejectedNever(out) == FALSE

\* if (error)
insertRejected(out) == out.error # "none"

\* the insert resolves: toastError(error.message) on an error, else the success
\* toast and the Textarea cleared; then setLoading(false)
insertReplies(g) ==
  LET out == storeInsert(store, ingestions[g].payload) IN
  /\ ingestions[g].pc = "Inserting"
  /\ store' = out.rows
  /\ IF insertRejected(out)
       THEN /\ ingestions' = [ingestions EXCEPT ![g].pc = "Done",
                                                ![g].error = out.error,
                                                ![g].toast = out.error]
            /\ UNCHANGED formInput
       ELSE /\ ingestions' = [ingestions EXCEPT ![g].pc = "Done",
                                                ![g].error = out.error,
                                                ![g].toast = "Successfully create embedding."]
            /\ formInput' = <<>>
  /\ formLoading' = FALSE
  /\ UNCHANGED <<uiVars, asmVars, srvVars>>

NextIngest ==
  \/ FormType
  \/ handleSubmit
  \/ handleSubmitPdf
  \/ \E g \in 1..Len(ingestions) : ingestEmbeddingRejects(g)
  \/ \E g \in 1..Len(ingestions) : ingestEmbeddingReplies(g)
  \/ \E g \in 1..Len(ingestions) : insertReplies(g)

SpecIngest == Init /\ [][NextIngest]_vars

Ingestions == 1..Len(ingestions)

C20_DimensionGuard ==
  /\ \A k \in 1..Len(store) : Len(store[k].embedding) = Dimensionality
  /\ \A g \in Ingestions :
       ( /\ ingestions[g].pc = "Done" /\ ingestions[g].inserts = 1
         /\ Len(ingestions[g].payload.embedding) # Dimensionality )
       => ingestions[g].error = "DimensionMismatch"
  /\ Len(store) = Cardinality({g \in Ingestions :
                                 /\ ingestions[g].pc = "Done" /\ ingestions[g].inserts = 1
                                 /\ ingestions[g].error = "none"})

\* C20 witness: after one row was stored, an insert of a vector of another
\* length was rejected and the table still holds that one row.
C20_Witness ==
  /\ Len(store) = 1
  /\ \E g \in Ingestions :
       /\ ingestions[g].pc = "Done"
       /\ Len(ingestions[g].payload.embedding) # Dimensionality
       /\ ingestions[g].error = "DimensionMismatch"

\* C21: an ingestion whose insert the table rejected has ended with a toast
\* that carries the table's reason, not the success toast, and the step that
\* handles the rejection leaves the Textarea as it was.
C21_RejectionSurfaced ==
  /\ [](\A g \in Ingestions :
         ingestions[g].error # "none" =>
           /\ ingestions[g].pc = "Done"
           /\ ingestions[g].toast = ingestions[g].error
           /\ ingestions[g].toast # "Successfully create embedding.")
  /\ [][\A g \in Ingestions :
          (ingestions[g].pc = "Inserting" /\ ingestions'[g].error # "none")
          => formInput' = formInput]_vars

\* C21 witness: an insert of the typed text was rejected for its vector's
\* length, the reason is in the toast and the text is still in the Textarea.
C21_Witness ==
  \E g \in Ingestions :
    /\ ingestions[g].pc = "Done"
    /\ ingestions[g].error = "DimensionMismatch"
    /\ ingestions[g].toast = "DimensionMismatch"
    /\ formInput # <<>> /\ formInput = ingestions[g].data

\* ------------------------------------------- the texts sent to /embedding
\* what a Textarea can hold: any text, newlines included
Chars == {"a", " ", "\n"}
Texts(n) == UNION { [1..k -> Chars] : k \in 0..n }

\* the Textarea holds any text; the query field is an <input>, whose value
\* has no newline
InitCollapse ==
  /\ component \in Components
  /\ chatRoute \in ChatRoutes
  /\ input \in Inputs
  /\ formInput \in Texts(MaxLen)
  /\ formLoading = FALSE
  /\ ingestions = <<>>
  /\ store = <<>>
  /\ requests = <<>>
  /\ lookup = NoLookup
  /\ questions = <<>>
  /\ answers = <<>>
  /\ loading = FALSE
  /\ turns = <<>>
  /\ matches = NullDocuments
  /\ asm = loopStart

NextCollapse ==
  \/ handleSearch
  \/ handleSubmit
  \/ handleSubmitPdf

SpecCollapse == InitCollapse /\ [][NextCollapse]_vars

\* the text is t with every newline replaced by one space
Collapsed(sent, t) ==
  /\ Len(sent) = Len(t)
  /\ \A i \in 1..Len(t) : sent[i] = (IF t[i] = "\n" THEN " " ELSE t[i])
  /\ \A i \in 1..Len(sent) : sent[i] # "\n"

\* C23: the text every query turn and every ingestion sent to /embedding is
\* the submitted text with each newline replaced by one space, and holds no
\* newline.
C23_NewlineCollapsing ==
  /\ \A t \in Turns : Collapsed(turns[t].embedText, turns[t].searchText)
  /\ \A g \in Ingestions :
       ingestions[g].pc # "Done" => Collapsed(ingestions[g].embedText, ingestions[g].data)

\* C23 witness: an ingestion of a text with a newline in it is waiting for
\* /embedding, next to a query turn that is waiting too.
C23_Witness ==
  /\ \E g \in Ingestions :
       /\ ingestions[g].pc = "Embedding"
       /\ \E i \in 1..Len(ingestions[g].data) : ingestions[g].data[i] = "\n"
  /\ \E t \in Turns : turns[t].pc = "Embedding"

\* ------------------------------------------------- the loop, step by step
InitAssemble ==
  /\ matches \in RpcResults(MaxMatches)
  /\ asm = loopStart
  /\ component \in Components
  /\ chatRoute \in ChatRoutes
  /\ IngestIdle
  /\ requests = <<>>
  /\ lookup = NoLookup
  /\ input = <<>>
  /\ questions = <<>>
  /\ answers = <<>>
  /\ loading = FALSE
  /\ turns = <<>>

LoopStep ==
  /\ loopTest(matches, asm)
  /\ asm' = loopBody(matches, asm)
  /\ UNCHANGED <<matches, uiVars, ingVars, srvVars>>

NextAssemble == LoopStep

SpecAssemble == InitAssemble /\ [][NextAssemble]_vars

LoopDone == ~loopTest(matches, asm)

\* C1: the token counts of the documents whose text is in the context never
\* sum to more than the budget (1500), at any point of the loop and for every list.
C1_TokenBudget == usedTokens(matches, asm) <= TokenBudget

\* C1 witness: the loop has ended on a break, with two documents included that
\* fill the budget exactly.
C1_Witness ==
  /\ LoopDone /\ asm.broke
  /\ Cardinality(asm.included) = 2
  /\ usedTokens(matches, asm) = TokenBudget

\* C9: the included indices are always a prefix 1..k of the ranked list, and
\* after the break nothing further is included.
C9_Prefix ==
  /\ asm.included = 1..Cardinality(asm.included)
  /\ asm.broke => asm.included = 1..(asm.i - 1)

\* C9 witness: the loop broke on a document that overflowed while a later
\* document of the list would still have fitted.
C9_Witness ==
  /\ LoopDone /\ asm.broke
  /\ \E j \in (asm.i + 1)..Len(matches.rows) :
       usedTokens(matches, asm) + matches.rows[j].token <= TokenBudget

\* C10: when the first match alone exceeds the budget, the finished loop has
\* the empty context and has used no tokens, whatever follows it.
C10_GreedyStop ==
  (LoopDone /\ Len(matches.rows) >= 1 /\ matches.rows[1].token > TokenBudget)
    => (asm.contextText = <<>> /\ usedTokens(matches, asm) = 0)

\* C10 witness: the first match exceeds the budget, further matches follow,
\* and the loop has ended.
C10_Witness ==
  /\ LoopDone /\ Len(matches.rows) >= 2
  /\ matches.rows[1].token > TokenBudget
  /\ asm.broke

\* C26: every row the loop has passed, and every row once the loop has ended,
\* is included exactly when the token counts of the rows up to and including it
\* sum to at most the budget; a row that brings the sum to exactly the budget
\* is included.
C26_LongestPrefix ==
  \A i \in 1..Len(matches.rows) :
    (i < asm.i \/ LoopDone) =>
      (i \in asm.included <=> SumTokens(matches, 1..i) <= TokenBudget)

\* C26 witness: the first row alone fills the budget exactly and is included,
\* and the loop broke at the row after it.
C26_Witness ==
  /\ LoopDone /\ asm.broke
  /\ asm.included = {1}
  /\ matches.rows[1].token = TokenBudget

\* --------------------------------------------------- one turn at a time
\* the user submits only when no turn is waiting for a reply
handleSearchAlone ==
  /\ \A t \in Turns : ~InFlight(t)
  /\ handleSearch

NextSequential ==
  \/ Type
  \/ handleSearchBlank
  \/ handleSearchAlone
  \/ \E t \in 1..Len(turns) : embeddingRejects(t)
  \/ \E t \in 1..Len(turns) : embeddingReplies(t)
  \/ \E t \in 1..Len(turns) : searchReplies(t)
  \/ \E t \in 1..Len(turns) : generationRejects(t)
  \/ \E t \in 1..Len(turns) : generationReplies(t)

SpecSequential == Init /\ [][NextSequential]_vars

\* C25: with turns that never overlap, every answer in the history sits at
\* the index of the question of the turn that appended it.
C25_AnswerAlignment ==
  \A i \in 1..Len(answers) :
    \E t \in Turns : turns[t].aIndex = i /\ turns[t].qIndex = i

IsPrefix(a, b) == Len(a) <= Len(b) /\ SubSeq(b, 1, Len(a)) = a

\* C28: the answers list is never longer than the questions list, and every
\* step leaves the entries both lists had where they were, adding at the end only.
C28_HistoryShape ==
  /\ [](Len(answers) <= Len(questions))
  /\ [][IsPrefix(questions, questions') /\ IsPrefix(answers, answers')]_vars

\* C28 witness: two questions and two answers have been appended.
C28_Witness == Len(questions) = 2 /\ Len(answers) = 2

\* C29: the step that starts a turn leaves the input field empty, and the step
\* that ends a turn leaves the input field as it was.
C29_SubmissionConsumesInput ==
  [][ /\ Len(turns') > Len(turns) => input' = <<>>
      /\ (\E t \in Turns : InFlight(t) /\ turns'[t].pc \in {"Done", "ErrorAtStage"})
           => input' = input ]_vars

\* ------------------------------------------------ the server, per request
\* the paths of the two route handlers, the user of the caller's session
\* (null when nobody is signed in), and the text or prompt of the body
Paths == {"/chat", "/embedding"}
Sessions == {"user", "null"}
Bodies == { <<>>, <<"q">> }

\* a request on its way: at the middleware, at the route handler, or answered
\* (done) with a status; inputs is what its handler sent to the model
newRequest(path, user, body) ==
  [ path    |-> path,
    user    |-> user,
    body    |-> body,
    stage   |-> "middleware",
    status  |-> 0,
    choices |-> "",
    inputs  |-> <<>> ]

arrives ==
  \E path \in Paths, user \in Sessions, body \in Bodies :
    /\ Len(requests) < MaxRequests
    /\ requests' = Append(requests, newRequest(path, user, body))
    /\ UNCHANGED <<uiVars, asmVars, ingVars, lookup>>

\* if (!data.user)
notUser(data) == data.user = "null"

\* middleware.ts: every path but /auth and the static files is matched; without
\* a user the request is answered with a redirect to /auth, else it goes on
middleware(r) ==
  LET data == [isObject |-> TRUE, user |-> requests[r].user] IN
  /\ requests[r].stage = "middleware"
  /\ requests' = IF notUser(data)
                   THEN [requests EXCEPT ![r].stage = "done", ![r].status = 307]
                   ELSE [requests EXCEPT ![r].stage = "route"]
  /\ UNCHANGED <<uiVars, asmVars, ingVars, lookup>>

\* the route handler of the request's path answers
POST(r) ==
  \E sendOk, backendOk \in BOOLEAN, data \in GetUserData :
    LET req == requests[r]
        res == IF req.path = "/chat"
                 THEN chat(chatRoute, data, req.body, sendOk, backendOk)
                 ELSE embeddingPOST(data, req.body, backendOk)
    IN
    /\ req.stage = "route"
    /\ requests' = [requests EXCEPT
                      ![r].stage = "done",
                      ![r].status = res.status,
                      ![r].choices = IF req.path = "/chat" THEN res.choices ELSE "",
                      ![r].inputs = res.inputs]
    /\ UNCHANGED <<uiVars, asmVars, ingVars, lookup>>

NextRoutes ==
  \/ arrives
  \/ \E r \in 1..Len(requests) : middleware(r)
  \/ \E r \in 1..Len(requests) : POST(r)

SpecRoutes == Init /\ [][NextRoutes]_vars

Requests == 1..Len(requests)

\* C27: a request the /chat handler has answered got 400 whenever the model
\* was called and did not produce the text, got 200 only with the text the
\* model generated for the request's prompt, and never got the 500 of an
\* exception that left the handler.
C27_FailureMapping ==
  \A r \in Requests :
    (requests[r].path = "/chat" /\ requests[r].stage = "done" /\ requests[r].status # 307) =>
      /\ requests[r].status \in {200, 400, 403}
      /\ (requests[r].inputs # <<>> /\ requests[r].status # 200) => requests[r].status = 400
      /\ requests[r].status = 200 =>
           /\ requests[r].choices = Generated
           /\ \E k \in 1..Len(requests[r].inputs) : requests[r].inputs[k] = requests[r].body

\* C30: a request made without a signed-in user has been answered with 403
\* and nothing of it was sent to a model.
C30_AuthorizationGuard ==
  \A r \in Requests :
    (requests[r].user = "null" /\ requests[r].stage = "done") =>
      /\ requests[r].status = 403
      /\ requests[r].inputs = <<>>

\* ------------------------------------------------------ the store's search
\* the rows of the table in insertion order, each with its similarity to the
\* query vector in tenths (2 is the 0.2 the component asks for)
Similarities == {1, 2, 3}
Stored(n) ==
  UNION { { [k \in 1..m |-> [id |-> k, similarity |-> f[k]]] : f \in [1..m -> Similarities] }
          : m \in 0..n }
Thresholds == {2, 4}

\* x put behind every row that is at least as similar: rows of equal
\* similarity keep their insertion order
RECURSIVE insertRanked(_, _)
insertRanked(x, ranked) ==
  IF ranked = <<>> THEN <<x>>
  ELSE IF Head(ranked).similarity >= x.similarity
    THEN <<Head(ranked)>> \o insertRanked(x, Tail(ranked))
    ELSE <<x>> \o ranked

RECURSIVE rank(_)
rank(rows) ==
  IF rows = <<>> THEN <<>>
  ELSE insertRanked(rows[Len(rows)], rank(SubSeq(rows, 1, Len(rows) - 1)))

first(rows, n) == SubSeq(rows, 1, IF Len(rows) < n THEN Len(rows) ELSE n)

\* mutant: the rows that meet the threshold in table order, not ranked
searchUnranked(rows, threshold, limit) ==
  first(SelectSeq(rows, LAMBDA x : x.similarity >= threshold), limit)

\* search(queryVector, threshold, limit): the rows that meet the threshold,
\* ranked by similarity, the first limit of them
search(rows, threshold, limit) ==
  first(rank(SelectSeq(rows, LAMBDA x : x.similarity >= threshold)), limit)

InitSearch ==
  /\ component \in Components
  /\ chatRoute \in ChatRoutes
  /\ IngestIdle
  /\ requests = <<>>
  /\ input = <<>>
  /\ questions = <<>>
  /\ answers = <<>>
  /\ loading = FALSE
  /\ turns = <<>>
  /\ matches = NullDocuments
  /\ asm = loopStart
  /\ \E rows \in Stored(MaxStored), threshold \in Thresholds, limit \in 1..MaxLimit :
       lookup = [NoLookup EXCEPT !.rows = rows, !.threshold = threshold, !.limit = limit]

\* the call resolves with the rows found
match_documents ==
  /\ ~lookup.done
  /\ lookup' = [lookup EXCEPT
                  !.result = Rows(search(lookup.rows, lookup.threshold, lookup.limit)),
                  !.done = TRUE]
  /\ UNCHANGED <<uiVars, asmVars, ingVars, requests>>

NextSearch == match_documents

SpecSearch == InitSearch /\ [][NextSearch]_vars

\* C22: the result of a search is a list, not null; it has at most limit rows,
\* all of them rows of the table with a similarity of at least the threshold,
\* in descending order of similarity with equal rows in insertion order; it is
\* the empty list when no row of the table meets the threshold.
C22_SearchContract ==
  lookup.done =>
    LET found == lookup.result.rows IN
    /\ ~lookup.result.isNull
    /\ Len(found) <= lookup.limit
    /\ \A k \in 1..Len(found) :
         /\ found[k].similarity >= lookup.threshold
         /\ \E m \in 1..Len(lookup.rows) : lookup.rows[m] = found[k]
    /\ \A j, k \in 1..Len(found) :
         j < k => \/ found[j].similarity > found[k].similarity
                  \/ /\ found[j].similarity = found[k].similarity
                     /\ found[j].id < found[k].id
    /\ (\A m \in 1..Len(lookup.rows) : lookup.rows[m].similarity < lookup.threshold)
         => found = <<>>

\* C22 witness: of three rows one is under the threshold and one is the most
\* similar but was inserted last; the search returned that one first, then
\* the other row that meets the threshold.
C22_Witness ==
  /\ lookup.done
  /\ Len(lookup.rows) = 3 /\ lookup.limit = 2
  /\ lookup.rows[1].similarity < lookup.threshold
  /\ Len(lookup.result.rows) = 2
  /\ lookup.result.rows[1].id = 3 /\ lookup.result.rows[2].id = 2

====
